---- MODULE Spec2Model ----
(***************************************************************************)
(* Model of modules/wycc/clib/wycc__isDigit.c: the routine wycc__isDigit   *)
(* over boxed values (wycc_obj), and the constructor-time glue that links  *)
(* the module's initializer record into wycc_init_chain so that the        *)
(* runtime registers the routine before the program's entry point.         *)
(***************************************************************************)
EXTENDS Integers, Sequences, FiniteSets, TLC

(* ------------------------------ bounds -------------------------------- *)
\* payloads are drawn from windows of this width below 0, below '0', above '9'
Margin == 1
\* boxes the program holds as arguments when it enters main
MaxInputs == 2
\* calls of wycc__isDigit the program makes
MaxCalls == 3
\* other library modules whose constructors share wycc_init_chain
NOther == 3

(* ------------------------- program constants -------------------------- *)
\* '0' and '9' in the comparisons of lines 54 and 56
CHAR_0 == 48
CHAR_9 == 57
\* the argument of exit() on line 48
EXIT_UNSUPPORTED == -3

\* the null pointer of the init chain (a static record's nxt before linking)
NULL == "NULL"
\* the null object pointer
NULL_OBJ == 0
\* the null function pointer of a zero-initialised record
NULL_FN == "NULL_FN"

Wy_Int == "Wy_Int"
Wy_Char == "Wy_Char"
Wy_Byte == "Wy_Byte"
Wy_Bool == "Wy_Bool"
Wy_String == "Wy_String"

Accepted == {Wy_Int, Wy_Char, Wy_Byte}
Types == Accepted \cup {Wy_Bool, Wy_String}

Payloads ==
  ((0 - Margin)..0) \cup ((CHAR_0 - Margin)..CHAR_0) \cup (CHAR_9..(CHAR_9 + Margin))

\* the payloads a box of each type can carry
PayloadsOf(typ) ==
  IF typ \in Accepted THEN Payloads
  ELSE IF typ = Wy_Bool THEN {0, 1}
  ELSE {0}

\* a boxed value: type tag, payload, reference count
Obj(typ, ptr) == [typ |-> typ, ptr |-> ptr, cnt |-> 1]

(* ------------------------------ modules ------------------------------- *)
ThisModule == "isDigit"
OtherModules == {"other" \o ToString(i) : i \in 1..NOther}
Modules == {ThisModule} \cup OtherModules

\* a static wycc_initor before its constructor ran: zero-initialised
ZeroInitor == [nxt |-> NULL, functionr |-> NULL_FN, functionq |-> NULL_FN]

VARIABLES
  phase,            \* "load", "register", "query", "main", "exited"
  wycc_init_chain,  \* head of the chain of initializer records
  initor_c,         \* each module's static record __initor_c
  ctor,             \* each module's constructor: 0 not run, 1 after line 78, 2 done
  overlap,          \* a constructor started while another was between lines 76 and 79
  cursor,           \* the runtime's position in the chain while it runs initializers
  registry,         \* the FOM registry: registered routines
  found,            \* outcome of the last lookup of isDigit: "none", "hit", "miss"
  heap,             \* the boxes allocated so far, by address 1..Len(heap)
  ninputs,          \* the argument boxes are heap[1..ninputs]
  log,              \* the calls made so far: argument and returned box
  ret,              \* the box returned by the last call (NULL_OBJ: none)
  diag,             \* the diagnostic written to the error stream, if any
  exit_status       \* the status the process terminated with, if any

vars == <<phase, wycc_init_chain, initor_c, ctor, overlap, cursor, registry,
          found, heap, ninputs, log, ret, diag, exit_status>>

chainVars == <<wycc_init_chain, initor_c, ctor, overlap>>
callVars == <<heap, ninputs, log, ret, diag, exit_status>>

\* nothing written to the error stream; the process has not terminated
NoDiag == [where |-> "", typ |-> ""]
NoExit == <<>>

Init ==
  /\ phase = "load"
  /\ wycc_init_chain = NULL
  /\ initor_c = [m \in Modules |-> ZeroInitor]
  /\ ctor = [m \in Modules |-> 0]
  /\ overlap = FALSE
  /\ cursor = NULL
  /\ registry = {}
  /\ found = "none"
  /\ heap = <<>>
  /\ ninputs = 0
  /\ log = <<>>
  /\ ret = NULL_OBJ
  /\ diag = NoDiag
  /\ exit_status = NoExit

(* --------------------------- wycc__isDigit ---------------------------- *)
\* WY_OBJ_SANE: the argument is a live box
WY_OBJ_SANE(h, itm) == itm \in 1..Len(h) /\ h[itm].cnt > 0

\* the statuses the fatal-error primitive may terminate the process with
PanicStatuses == ((0 - 4)..(0 - 1)) \cup {1}

\* WY_PANIC: write the diagnostic, terminate the process
WY_PANIC(h, where, typ) ==
  { [heap |-> h, ret |-> NULL_OBJ, diag |-> [where |-> where, typ |-> typ],
     exit |-> <<s>>, returned |-> FALSE] : s \in PanicStatuses }

\* wycc_box_bool: a newly allocated Boolean box wrapping b
wycc_box_bool(h, b) ==
  [heap |-> Append(h, Obj(Wy_Bool, b)), ret |-> Len(h) + 1, diag |-> NoDiag,
   exit |-> NoExit, returned |-> TRUE]

\* lines 41-42 lost: a Character box leaves val at the -1 of line 38
isDigit_val_charunset(o) ==
  IF o.typ = Wy_Int THEN <<o.ptr>>
  ELSE IF o.typ = Wy_Char THEN <<0 - 1>>
  ELSE IF o.typ = Wy_Byte THEN <<o.ptr>>
  ELSE <<>>

\* lines 43-44 lost: a Byte box falls through to the fatal error
isDigit_val_nobyte(o) ==
  IF o.typ = Wy_Int THEN <<o.ptr>>
  ELSE IF o.typ = Wy_Char THEN <<o.ptr>>
  ELSE <<>>

\* lines 38-49: val in a one-element sequence, empty when the type is not supported
isDigit_val(o) ==
  IF o.typ = Wy_Int THEN <<o.ptr>>
  ELSE IF o.typ = Wy_Char THEN <<o.ptr>>
  ELSE IF o.typ = Wy_Byte THEN <<o.ptr>>
  ELSE <<>>

\* line 54 with <= for <
isDigit_ans_offbyone(val) ==
  IF val < 0 THEN 0
  ELSE IF val <= CHAR_0 THEN 0
  ELSE IF val > CHAR_9 THEN 0
  ELSE 1

\* line 51 boxing 1 for 0
isDigit_ans_negtrue(val) ==
  IF val < 0 THEN 1
  ELSE IF val < CHAR_0 THEN 0
  ELSE IF val > CHAR_9 THEN 0
  ELSE 1

\* lines 50-58: the value boxed for val
isDigit_ans(val) ==
  IF val < 0 THEN 0
  ELSE IF val < CHAR_0 THEN 0
  ELSE IF val > CHAR_9 THEN 0
  ELSE 1

\* the routine dropping a reference of its argument before it returns
wycc__isDigit_release(h, itm) ==
  IF ~WY_OBJ_SANE(h, itm)
  THEN WY_PANIC(h, "wycc__isDigit", "")
  ELSE LET val == isDigit_val(h[itm]) IN
       IF val = <<>>
       THEN WY_PANIC(h, "wycc__isLetter", h[itm].typ)
       ELSE {wycc_box_bool([h EXCEPT ![itm].cnt = @ - 1], isDigit_ans(val[1]))}

\* line 53 lost: for a val in range ans keeps what the previous call boxed
wycc__isDigit_stale(h, itm) ==
  IF ~WY_OBJ_SANE(h, itm)
  THEN WY_PANIC(h, "wycc__isDigit", "")
  ELSE LET val == isDigit_val(h[itm])
           last == IF Len(h) > 0 /\ h[Len(h)].typ = Wy_Bool THEN h[Len(h)].ptr ELSE 1
       IN
       IF val = <<>>
       THEN WY_PANIC(h, "wycc__isLetter", h[itm].typ)
       ELSE {wycc_box_bool(h, IF isDigit_ans(val[1]) = 1 THEN last ELSE 0)}

\* the outcomes of wycc__isDigit(itm) on heap h
wycc__isDigit(h, itm) ==
  IF ~WY_OBJ_SANE(h, itm)
  THEN WY_PANIC(h, "wycc__isDigit", "")
  ELSE LET val == isDigit_val(h[itm]) IN
       IF val = <<>>
       THEN LET p == WY_PANIC(h, "wycc__isLetter", h[itm].typ) IN
            {o \in p : ~o.returned}
              \cup {[o EXCEPT !.exit = <<EXIT_UNSUPPORTED>>, !.returned = FALSE]
                      : o \in {q \in p : q.returned}}
       ELSE {wycc_box_bool(h, isDigit_ans(val[1]))}

(* ------------------------- constructor, chain ------------------------- *)
\* line 76 lost: nxt keeps the null of the zero-initialised record
initor_a_fill_nonxt(m, head) ==
  [nxt |-> NULL, functionr |-> "__initor_b:" \o m, functionq |-> "__initor_d:" \o m]

\* lines 76-78: the record as the constructor of module m fills it
initor_a_fill(m, head) ==
  [nxt |-> head, functionr |-> "__initor_b:" \o m, functionq |-> "__initor_d:" \o m]

\* line 79 lost: the head stays what it was
initor_a_head_unlinked(m, head) == head

\* line 79: the new head of the chain
initor_a_head(m, head) == m

\* the routine module m provides
RoutineOf(m) ==
  IF m = ThisModule
  THEN [name |-> "isDigit", sig |-> "[^b,v,c]", fn |-> "wycc__isDigit"]
  ELSE [name |-> m, sig |-> "[^b,v]", fn |-> "wycc__" \o m]

\* wycc_register_routine: the registry with the routine added
wycc_register_routine(reg, name, sig, fn) ==
  reg \cup {[name |-> name, sig |-> sig, fn |-> fn]}

\* __initor_b of module m
initor_b(m, reg) ==
  LET r == RoutineOf(m) IN wycc_register_routine(reg, r.name, r.sig, r.fn)

\* __initor_d of module m: nothing to query
initor_d(m, reg) == reg

\* calling a callback stored in a record
CallFn(f, reg) ==
  IF \E m \in Modules : f = "__initor_b:" \o m
  THEN initor_b(CHOOSE m \in Modules : f = "__initor_b:" \o m, reg)
  ELSE IF \E m \in Modules : f = "__initor_d:" \o m
  THEN initor_d(CHOOSE m \in Modules : f = "__initor_d:" \o m, reg)
  ELSE reg

\* the records reachable from p, in order; fuel bounds the walk
RECURSIVE ChainFrom(_, _, _)
ChainFrom(recs, p, fuel) ==
  IF p = NULL \/ fuel = 0 THEN <<>>
  ELSE <<p>> \o ChainFrom(recs, recs[p].nxt, fuel - 1)

Chain == ChainFrom(initor_c, wycc_init_chain, Cardinality(Modules) + 1)

\* the constructor of module m, run to completion (lines 76-79)
initor_a(m) ==
  /\ phase = "load"
  /\ ctor[m] = 0
  /\ \A o \in Modules : ctor[o] # 1
  /\ initor_c' = [initor_c EXCEPT ![m] = initor_a_fill(m, wycc_init_chain)]
  /\ wycc_init_chain' = initor_a_head(m, wycc_init_chain)
  /\ ctor' = [ctor EXCEPT ![m] = 2]
  /\ UNCHANGED <<phase, overlap, cursor, registry, found>>
  /\ UNCHANGED callVars

\* the constructor of module m up to line 78
initor_a_76(m) ==
  /\ phase = "load"
  /\ ctor[m] = 0
  /\ initor_c' = [initor_c EXCEPT ![m] = initor_a_fill(m, wycc_init_chain)]
  /\ ctor' = [ctor EXCEPT ![m] = 1]
  /\ overlap' = (overlap \/ \E o \in Modules : ctor[o] = 1)
  /\ UNCHANGED <<phase, wycc_init_chain, cursor, registry, found>>
  /\ UNCHANGED callVars

\* line 79 of the constructor of module m
initor_a_79(m) ==
  /\ phase = "load"
  /\ ctor[m] = 1
  /\ wycc_init_chain' = initor_a_head(m, wycc_init_chain)
  /\ ctor' = [ctor EXCEPT ![m] = 2]
  /\ UNCHANGED <<phase, initor_c, overlap, cursor, registry, found>>
  /\ UNCHANGED callVars

(* ------------------------------ runtime ------------------------------- *)
\* all constructors have run: the runtime starts the register phase
StartRegister ==
  /\ phase = "load"
  /\ \A m \in Modules : ctor[m] = 2
  /\ phase' = "register"
  /\ cursor' = wycc_init_chain
  /\ UNCHANGED <<registry, found>>
  /\ UNCHANGED chainVars
  /\ UNCHANGED callVars

\* the runtime calls functionr of the record at the cursor, or ends the phase
RunRegister ==
  /\ phase = "register"
  /\ IF cursor = NULL
     THEN /\ phase' = "query"
          /\ cursor' = wycc_init_chain
          /\ UNCHANGED registry
     ELSE /\ registry' = CallFn(initor_c[cursor].functionr, registry)
          /\ cursor' = initor_c[cursor].nxt
          /\ UNCHANGED phase
  /\ UNCHANGED found
  /\ UNCHANGED chainVars
  /\ UNCHANGED callVars

\* the runtime calls functionq of the record at the cursor, or enters main
RunQuery ==
  /\ phase = "query"
  /\ IF cursor = NULL
     THEN /\ phase' = "main"
          /\ UNCHANGED <<cursor, registry>>
     ELSE /\ registry' = CallFn(initor_c[cursor].functionq, registry)
          /\ cursor' = initor_c[cursor].nxt
          /\ UNCHANGED phase
  /\ UNCHANGED found
  /\ UNCHANGED chainVars
  /\ UNCHANGED callVars

\* the program looks isDigit up by name
Lookup ==
  /\ phase = "main"
  /\ found' = IF \E e \in registry : e.name = "isDigit" THEN "hit" ELSE "miss"
  /\ UNCHANGED <<phase, cursor, registry>>
  /\ UNCHANGED chainVars
  /\ UNCHANGED callVars

\* the program calls wycc__isDigit(itm)
Call(itm) ==
  /\ phase = "main"
  /\ Len(log) < MaxCalls
  /\ \E o \in wycc__isDigit(heap, itm) :
       /\ heap' = o.heap
       /\ ret' = o.ret
       /\ diag' = o.diag
       /\ exit_status' = o.exit
       /\ phase' = IF o.returned THEN phase ELSE "exited"
       /\ log' = Append(log, [itm |-> itm, ret |-> o.ret])
  /\ UNCHANGED <<cursor, registry, found, ninputs>>
  /\ UNCHANGED chainVars

Runtime == StartRegister \/ RunRegister \/ RunQuery

\* start-up: constructors run one at a time, then the runtime's two phases,
\* then the program looks the routine up
Next ==
  \/ \E m \in Modules : initor_a(m)
  \/ Runtime
  \/ Lookup

Spec == Init /\ [][Next]_vars

\* start-up with constructors whose lines may interleave
NextRace ==
  \/ \E m \in Modules : initor_a_76(m)
  \/ \E m \in Modules : initor_a_79(m)
  \/ Runtime
  \/ Lookup

SpecRace == Init /\ [][NextRace]_vars

(* ----------------------- the program's calls -------------------------- *)
RECURSIVE SeqOf(_)
SeqOf(S) ==
  IF S = {} THEN <<>>
  ELSE LET x == CHOOSE y \in S : TRUE IN <<x>> \o SeqOf(S \ {x})

\* the order in which the constructors ran
LinkOrder == SeqOf(OtherModules) \o <<ThisModule>>

\* the chain after the constructors of order ran, each to completion
RECURSIVE Linked(_)
Linked(order) ==
  IF order = <<>>
  THEN [recs |-> [m \in Modules |-> ZeroInitor], head |-> NULL]
  ELSE LET prev == Linked(SubSeq(order, 1, Len(order) - 1))
           m == order[Len(order)]
       IN [recs |-> [prev.recs EXCEPT ![m] = initor_a_fill(m, prev.head)],
           head |-> initor_a_head(m, prev.head)]

\* the registry after the register phase walked the chain from p
RECURSIVE Registered(_, _, _, _)
Registered(recs, p, reg, fuel) ==
  IF p = NULL \/ fuel = 0 THEN reg
  ELSE Registered(recs, recs[p].nxt, CallFn(recs[p].functionr, reg), fuel - 1)

\* the argument boxes the program may hold
Inputs == UNION {{Obj(typ, p) : p \in PayloadsOf(typ)} : typ \in Types}

RECURSIVE Heaps(_)
Heaps(n) ==
  IF n = 0 THEN {<<>>}
  ELSE {Append(h, o) : h \in Heaps(n - 1), o \in Inputs}

\* the program's entry point has been reached; it holds 1..MaxInputs boxes
InitMain ==
  /\ phase = "main"
  /\ wycc_init_chain = Linked(LinkOrder).head
  /\ initor_c = Linked(LinkOrder).recs
  /\ ctor = [m \in Modules |-> 2]
  /\ overlap = FALSE
  /\ cursor = NULL
  /\ registry = Registered(initor_c, wycc_init_chain, {}, Cardinality(Modules))
  /\ found = "none"
  /\ ninputs \in 1..MaxInputs
  /\ heap \in Heaps(ninputs)
  /\ log = <<>>
  /\ ret = NULL_OBJ
  /\ diag = NoDiag
  /\ exit_status = NoExit

NextMain == \E itm \in 1..ninputs : Call(itm)

SpecMain == InitMain /\ [][NextMain]_vars


(* ------------------------------ claims -------------------------------- *)
\* the calls recorded in log: argument box, whether a box came back, its value
HasArg(i) == log[i].itm # NULL_OBJ
ArgOf(i) == heap[log[i].itm]
Returned(i) == log[i].ret # NULL_OBJ
AnsOf(i) == heap[log[i].ret].ptr
AcceptedCall(i) == HasArg(i) /\ ArgOf(i).typ \in Accepted
UnsupportedCall(i) == HasArg(i) /\ ArgOf(i).typ \notin Accepted

\* C1: for every call whose argument is an Integer, Character or Byte box with
\* payload p, the returned boxed boolean is true if and only if 48 <= p <= 57.
C1_DigitIff ==
  \A i \in DOMAIN log :
    AcceptedCall(i) =>
      /\ Returned(i)
      /\ (AnsOf(i) = 1) <=> (48 <= ArgOf(i).ptr /\ ArgOf(i).ptr <= 57)

\* a call on payload 57 answered true and a call on payload 58 answered false
C1_Witness ==
  \E i, j \in DOMAIN log :
    /\ AcceptedCall(i) /\ ArgOf(i).ptr = 57 /\ Returned(i) /\ AnsOf(i) = 1
    /\ AcceptedCall(j) /\ ArgOf(j).ptr = 58 /\ Returned(j) /\ AnsOf(j) = 0

C3_DiagNamesIsDigit ==
  \A i \in DOMAIN log :
    UnsupportedCall(i) =>
      /\ diag.typ = ArgOf(i).typ
      /\ diag.where \in {"wycc__isDigit", "isDigit"}

\* C4: registration of "isDigit" with signature "[^b,v,c]" completes before any
\* lookup: once loading is over the module's record is in the init chain, at
\* the program's entry every record's registration initializer has run, and no
\* lookup of isDigit misses.
C4_RegisteredBeforeLookup ==
  /\ found # "miss"
  /\ phase # "load" => \E k \in DOMAIN Chain : Chain[k] = ThisModule
  /\ phase = "main" =>
       /\ \A m \in Modules : RoutineOf(m) \in registry
       /\ [name |-> "isDigit", sig |-> "[^b,v,c]", fn |-> "wycc__isDigit"] \in registry

\* the program is in main and a lookup of isDigit has hit
C4_Witness == phase = "main" /\ found = "hit"

\* C5: a call changes no box that existed before it (the argument keeps its
\* tag, payload and reference count) and changes neither the registry nor the
\* init chain; the heap only grows.
C5_Frame ==
  [][ /\ Len(heap') >= Len(heap)
      /\ \A a \in 1..Len(heap) : heap'[a] = heap[a]
      /\ registry' = registry
      /\ wycc_init_chain' = wycc_init_chain
      /\ initor_c' = initor_c ]_vars

\* a call has returned a box, and another call has ended the process
C5_Witness ==
  /\ \E i \in DOMAIN log : Returned(i)
  /\ phase = "exited"

\* C6: calls on Integer, Character and Byte boxes carrying the same payload
\* return the same boolean.
C6_TagIndependent ==
  \A i, j \in DOMAIN log :
    (AcceptedCall(i) /\ AcceptedCall(j) /\ ArgOf(i).ptr = ArgOf(j).ptr) =>
      /\ Returned(i) /\ Returned(j)
      /\ AnsOf(i) = AnsOf(j)

\* calls on boxes of different tags with the same payload have returned, for
\* a digit
C6_Witness ==
  \E i, j \in DOMAIN log :
    /\ AcceptedCall(i) /\ AcceptedCall(j)
    /\ ArgOf(i).typ # ArgOf(j).typ
    /\ ArgOf(i).ptr = ArgOf(j).ptr
    /\ ArgOf(i).ptr = 48
    /\ Returned(i) /\ Returned(j)

\* C7: a call on an Integer, Character or Byte box with a negative payload
\* returns boxed false, by a normal return.
C7_NegativeFalse ==
  \A i \in DOMAIN log :
    (AcceptedCall(i) /\ ArgOf(i).ptr < 0) =>
      /\ Returned(i)
      /\ heap[log[i].ret].typ = Wy_Bool
      /\ AnsOf(i) = 0
      /\ (i = Len(log) => phase = "main")

\* a Character box with a negative payload was answered
C7_Witness ==
  \E i \in DOMAIN log :
    /\ AcceptedCall(i) /\ ArgOf(i).typ = Wy_Char /\ ArgOf(i).ptr < 0
    /\ Returned(i)

\* C8: every call on an Integer, Character or Byte box returns one newly
\* allocated Boolean box wrapping 0 or 1: never null, never the fatal path.
C8_ReturnsNewBool ==
  /\ \A i \in DOMAIN log :
       AcceptedCall(i) =>
         /\ Returned(i)
         /\ log[i].ret \in (ninputs + 1)..Len(heap)
         /\ heap[log[i].ret].typ = Wy_Bool
         /\ heap[log[i].ret].ptr \in {0, 1}
         /\ heap[log[i].ret].cnt = 1
         /\ \A j \in DOMAIN log : (j # i /\ Returned(j)) => log[j].ret # log[i].ret
         /\ (i = Len(log) => phase = "main" /\ ret = log[i].ret)
  /\ Len(heap) = ninputs + Cardinality({i \in DOMAIN log : Returned(i)})

\* calls on accepted boxes have returned both a true and a false box
C8_Witness ==
  \E i, j \in DOMAIN log :
    /\ AcceptedCall(i) /\ Returned(i) /\ AnsOf(i) = 1
    /\ AcceptedCall(j) /\ Returned(j) /\ AnsOf(j) = 0

\* C9: two calls on the same accepted box, whatever calls were made in between,
\* return value-equal boxes.
C9_SameInputSameResult ==
  \A i, j \in DOMAIN log :
    (AcceptedCall(i) /\ log[i].itm = log[j].itm) =>
      /\ Returned(i) /\ Returned(j)
      /\ heap[log[i].ret].typ = heap[log[j].ret].typ
      /\ AnsOf(i) = AnsOf(j)

\* a digit box was called, then a box with another answer, then the first again
C9_Witness ==
  \E i, k, j \in DOMAIN log :
    /\ i < k /\ k < j
    /\ log[i].itm = log[j].itm /\ log[k].itm # log[i].itm
    /\ AcceptedCall(i) /\ AcceptedCall(k)
    /\ Returned(i) /\ Returned(k) /\ Returned(j)
    /\ AnsOf(i) = 1 /\ AnsOf(k) = 0

\* C10: when no constructor started while another was between its read and
\* its write of the head, the constructor of this module prepends its record:
\* the head becomes this record, its nxt is the previous head, its
\* register-phase callback registers isDigit, its query-phase callback does
\* nothing, and the chain is this record followed by the chain as it was.
C10_Prepend ==
  [][ (ctor[ThisModule] = 1 /\ ctor'[ThisModule] = 2 /\ ~overlap') =>
        /\ wycc_init_chain' = ThisModule
        /\ initor_c'[ThisModule].nxt = wycc_init_chain
        /\ CallFn(initor_c'[ThisModule].functionr, {})
             = {[name |-> "isDigit", sig |-> "[^b,v,c]", fn |-> "wycc__isDigit"]}
        /\ \A reg \in SUBSET {RoutineOf(m) : m \in Modules} :
             CallFn(initor_c'[ThisModule].functionq, reg) = reg
        /\ Chain' = <<ThisModule>> \o Chain
        /\ \A k, l \in DOMAIN Chain' : Chain'[k] = Chain'[l] => k = l ]_vars

\* the constructors ran one at a time, this module's after another's, and the
\* chain holds every module's record
C10_Witness ==
  /\ \A m \in Modules : ctor[m] = 2
  /\ ~overlap
  /\ initor_c[ThisModule].nxt # NULL
  /\ Len(Chain) = Cardinality(Modules)

\* with interleaved constructors every record is still in the chain once all
\* have run (refuted under SpecRace: a record can be lost)
C10_NoRecordLost ==
  (\A m \in Modules : ctor[m] = 2) => Len(Chain) = Cardinality(Modules)

====
